---- MODULE Spec2Model ----
(***************************************************************************)
(* Model of src/main.py: the audio callback (producer), the hand-off       *)
(* queue and the segmentation loop of record_until_silence (consumer),     *)
(* followed by main's upload through send_audio_to_server.                 *)
(* Durations are whole milliseconds.                                       *)
(*                                                                         *)
(* A block is a record [idx, samples]: idx is its position in production   *)
(* order (the identity of the numpy array the callback copied), samples    *)
(* the sample values in integer amplitude units.                           *)
(***************************************************************************)
EXTENDS Integers, Sequences, FiniteSets, TLC

\* ---------------------------------------------------------------- bounds
MaxBlocks == 4          \* blocks the callback delivers in one run
MaxPreBuffer == 2       \* largest pre_buffer_blocks explored
MaxSilenceNeeded == 2   \* largest silence_blocks_needed explored
MaxPostBuffer == 2      \* largest post_buffer_blocks explored
MaxDurationMs == 1600   \* longest duration explored by SpecBlockCounts

\* block_duration of main.py:42, in milliseconds
BlockDurationMs == 100

\* main.py:19-21, in milliseconds
SILENCE_DURATION_SEC == 1500

PRE_SPEECH_BUFFER_SEC == 300

POST_SPEECH_BUFFER_SEC == 500

\* Sample contents of a block.  The mean square of each is a perfect
\* square, so calculate_rms is exact in integers: RMS 0, 1 and 5.
SampleBlocks == { <<0, 0>>, <<1, -1>>, <<1, 7>> }

\* RMS thresholds explored (same amplitude units as the samples).
Thresholds == { 1, 2 }

VARIABLES
    threshold,              \* parameter of record_until_silence
    silence_sec,            \* parameter, in whole milliseconds
    pre_buffer_sec,         \* parameter, in whole milliseconds
    post_buffer_sec,        \* parameter, in whole milliseconds
    silence_blocks_needed,  \* main.py:44
    pre_buffer_blocks,      \* main.py:45
    post_buffer_blocks,     \* main.py:46
    audio_queue,            \* main.py:23, module-global queue.Queue
    stream_open,            \* the sd.InputStream of main.py:54 is active
    pc,                     \* position of record_until_silence
    block,                  \* main.py:58, the block being processed
    recorded_blocks,        \* main.py:48
    silent_blocks_count,    \* main.py:49
    recording_started,      \* main.py:50
    temp_buffer,            \* main.py:51
    final_recording,        \* blocks concatenated at main.py:90
    outcome,                \* how record_until_silence ended
    produced,               \* history: every block the callback enqueued
    consumed,               \* history: every block audio_queue.get returned
    status_printed,         \* main.py:27-28 has printed a stream status
    main_pc,                \* position of main after record_until_silence
    posts,                  \* number of requests.post calls (main.py:120)
    response,               \* what the last requests.post call produced
    send_result,            \* what send_audio_to_server returned
    exit_code               \* exit status of the process, -1 while it runs

vars == << threshold, silence_sec, pre_buffer_sec, post_buffer_sec,
           silence_blocks_needed, pre_buffer_blocks,
           post_buffer_blocks, audio_queue, stream_open, pc, block,
           recorded_blocks, silent_blocks_count, recording_started,
           temp_buffer, final_recording, outcome, produced, consumed,
           status_printed, main_pc, posts, response, send_result, exit_code >>

\* The state of main and send_audio_to_server
main_vars == << main_pc, posts, response, send_result, exit_code >>

\* The state of the capture: the callback, the queue and record_until_silence
capture_vars == << threshold, silence_sec, pre_buffer_sec, post_buffer_sec,
                   silence_blocks_needed, pre_buffer_blocks, post_buffer_blocks,
                   audio_queue, stream_open, pc, block, recorded_blocks,
                   silent_blocks_count, recording_started, temp_buffer,
                   final_recording, outcome, produced, consumed,
                   status_printed >>

params == << threshold, silence_sec, pre_buffer_sec, post_buffer_sec >>

config == << threshold, silence_sec, pre_buffer_sec, post_buffer_sec,
             silence_blocks_needed, pre_buffer_blocks, post_buffer_blocks >>

NoBlock == [idx |-> 0, samples |-> <<>>]

Max(a, b) == IF a >= b THEN a ELSE b

Min(a, b) == IF a <= b THEN a ELSE b

\* ------------------------------------------------------------ block counts
\* The whole numbers k < 40 for which the double quotient (k/10) / 0.1 is
\* one ulp below k (0.3 / 0.1 = 2.9999999999999996), so that int() gives
\* k - 1.  For every other whole number of milliseconds below 4000 the
\* double quotient truncates to the exact floor.
QuotientBelow == {3, 6, 7, 12, 14, 19, 23, 24, 28, 29, 33, 38}

\* main.py:44-46 with round() in place of int()
block_count_round(sec) ==
    LET q == sec \div BlockDurationMs
        r == sec % BlockDurationMs
    IN  IF 2 * r > BlockDurationMs \/ (2 * r = BlockDurationMs /\ q % 2 = 1)
        THEN q + 1 ELSE q

\* main.py:44-46: int(sec / block_duration) in double arithmetic
block_count(sec) ==
    LET q == sec \div BlockDurationMs
    IN  IF sec % BlockDurationMs = 0 /\ q \in QuotientBelow THEN q - 1 ELSE q

\* ------------------------------------------------------- EnergyClassifier
RECURSIVE SumSquares(_)
SumSquares(s) == IF s = <<>> THEN 0
                 ELSE Head(s) * Head(s) + SumSquares(Tail(s))

\* np.mean(audio_chunk**2)
MeanSquare(s) == SumSquares(s) \div Len(s)

\* np.sqrt on the perfect squares SampleBlocks produce
Sqrt(n) == CHOOSE r \in 0..n : r * r = n

\* main.py:31-35
calculate_rms(audio_chunk) ==
    IF Len(audio_chunk) = 0 THEN 0
    ELSE Sqrt(MeanSquare(audio_chunk))

\* main.py:61 with <= in place of <
is_silent_le(rms) == rms <= threshold

\* main.py:61
is_silent(rms) == rms < threshold

Silent(b) == is_silent(calculate_rms(b.samples))

\* ------------------------------------------------------------ list helpers
\* queue.Queue.put at the wrong end
queue_put_front(q, b) == <<b>> \o q

\* queue.Queue.put (main.py:29): FIFO, appends at the tail
queue_put(q, b) == Append(q, b)

\* main.py:64-66 without the pop
push_temp_buffer_nopop(buf, b) == Append(buf, b)

\* main.py:64-66: append, then drop the oldest when over capacity
push_temp_buffer(buf, b) ==
    LET appended == Append(buf, b)
    IN  IF Len(appended) > pre_buffer_blocks THEN Tail(appended)
        ELSE appended

\* main.py:71-72 without the append of line 72
seed_recording_noappend(rec, buf, b) == rec \o buf

\* main.py:71-72: extend with the pre-speech buffer, then append the block
seed_recording(rec, buf, b) == Append(rec \o buf, b)

\* main.py:75 inserting at the front
append_recorded_front(rec, b) == <<b>> \o rec

\* main.py:75
append_recorded(rec, b) == Append(rec, b)

\* main.py:77 with = 1 in place of += 1
count_after_silent_assign(count) == 1

\* main.py:77 without the increment
count_after_silent_keep(count) == count

\* main.py:77
count_after_silent(count) == count + 1

\* main.py:78 with > in place of >=
stop_reached_gt(count) == count > silence_blocks_needed

\* main.py:78
stop_reached(count) == count >= silence_blocks_needed

\* main.py:82 without the reset
count_after_active_keep(count) == count

\* main.py:82
count_after_active(count) == 0

\* main.py:89 without the clamp
trim_count_noclamp(count) == count - post_buffer_blocks

\* main.py:89: max(0, silent_blocks_count - post_buffer_blocks)
trim_count(count) == Max(0, count - post_buffer_blocks)

\* main.py:89 without the post-speech buffer
num_blocks_to_keep_nopost(rec, count) == Len(rec) - count

\* main.py:89
num_blocks_to_keep(rec, count) == Len(rec) - trim_count(count)

\* Python's lst[:n]
SlicePrefix(lst, n) ==
    IF n >= 0 THEN SubSeq(lst, 1, Min(n, Len(lst)))
    ELSE SubSeq(lst, 1, Max(0, Len(lst) + n))

\* ----------------------------------------------------------------- upload
NoResponse == [kind |-> "none", status |-> 0, body |-> [type |-> "none", has_text |-> FALSE, text_is_str |-> FALSE]]

\* Response bodies: text that is not JSON, or a JSON value of some type;
\* has_text is what Python's `"text" in value` gives where it is defined
\* (a key of a dict, an element of a list, a substring of a str)
Bodies ==
    { [type |-> "invalid", has_text |-> FALSE, text_is_str |-> FALSE],
      [type |-> "dict", has_text |-> TRUE, text_is_str |-> TRUE],
      [type |-> "dict", has_text |-> TRUE, text_is_str |-> FALSE],
      [type |-> "dict", has_text |-> FALSE, text_is_str |-> FALSE],
      [type |-> "list", has_text |-> TRUE, text_is_str |-> FALSE],
      [type |-> "str", has_text |-> FALSE, text_is_str |-> FALSE],
      [type |-> "int", has_text |-> FALSE, text_is_str |-> FALSE],
      [type |-> "null", has_text |-> FALSE, text_is_str |-> FALSE] }

Statuses == { 200, 304, 500 }

\* What requests.post (main.py:120) produces: an exception or a response
Responses ==
    { [kind |-> k, status |-> 0, body |-> NoResponse.body] :
          k \in {"ConnectionError", "Timeout"} }
    \cup { [kind |-> "http", status |-> st, body |-> b] :
               st \in Statuses, b \in Bodies }

\* response.raise_for_status() (main.py:122): raises for 4xx and 5xx
raises_for_status(status) == status >= 400 /\ status < 600

\* main.py:126-133: "parsed" (text printed), "printed" (other JSON printed),
\* "not_json" (JSONDecodeError caught) or "TypeError" (nothing catches it)
json_outcome(body) ==
    IF body.type = "invalid" THEN "not_json"
    ELSE IF body.type \in {"int", "null"} THEN "TypeError"
    ELSE IF ~body.has_text THEN "printed"
    ELSE IF body.type # "dict" THEN "TypeError"
    ELSE IF body.text_is_str THEN "parsed" ELSE "printed"

\* main.py:118-148: what send_audio_to_server does with the response:
\* returns "True" or "False", or "raised" when an error escapes it
send_outcome(resp) ==
    IF resp.kind \in {"ConnectionError", "Timeout"} THEN "False"
    ELSE IF raises_for_status(resp.status) THEN "False"
    ELSE IF json_outcome(resp.body) = "TypeError" THEN "raised"
    ELSE "True"

\* main.py:135-146 retrying the request after a fault
after_response_retry(result) == IF result = "False" THEN "post" ELSE "exit"

\* main.py:134-148, 193: send_audio_to_server is left, main ends
after_response(result) == "exit"

\* ------------------------------------------------------------------- Init
\* Durations that give each block count once: 50 ms, 150 ms, 250 ms, ...
DurationsFor(max_blocks) ==
    { BlockDurationMs * k + 50 : k \in 0..max_blocks }

\* main.py:23, 37: the empty queue and the state on entry to
\* record_until_silence, before its locals are set
InitLocals ==
    /\ silence_blocks_needed = 0
    /\ pre_buffer_blocks = 0
    /\ post_buffer_blocks = 0
    /\ audio_queue = <<>>
    /\ stream_open = FALSE
    /\ pc = "start"
    /\ block = NoBlock
    /\ recorded_blocks = <<>>
    /\ silent_blocks_count = 0
    /\ recording_started = FALSE
    /\ temp_buffer = <<>>
    /\ final_recording = <<>>
    /\ outcome = "running"
    /\ produced = <<>>
    /\ consumed = <<>>
    /\ status_printed = FALSE
    /\ main_pc = "record"
    /\ posts = 0
    /\ response = NoResponse
    /\ send_result = "none"
    /\ exit_code = -1

\* main.py:188-189 generalised: record_until_silence called with any
\* threshold and durations that give every block count up to the bounds
Init ==
    /\ threshold \in Thresholds
    /\ silence_sec \in DurationsFor(MaxSilenceNeeded)
    /\ pre_buffer_sec \in DurationsFor(MaxPreBuffer)
    /\ post_buffer_sec \in DurationsFor(MaxPostBuffer)
    /\ InitLocals

\* main.py:188-189 with durations of at most one block, so that a whole run
\* of main fits in MaxBlocks blocks
InitMain ==
    /\ threshold \in Thresholds
    /\ silence_sec \in DurationsFor(1)
    /\ pre_buffer_sec \in DurationsFor(1)
    /\ post_buffer_sec \in DurationsFor(1)
    /\ InitLocals

\* record_until_silence called with every silence duration up to the bound
\* and pre- and post-speech buffers of at most one block
InitLive ==
    /\ threshold \in Thresholds
    /\ silence_sec \in DurationsFor(MaxSilenceNeeded)
    /\ pre_buffer_sec \in DurationsFor(1)
    /\ post_buffer_sec \in DurationsFor(1)
    /\ InitLocals

\* record_until_silence called with one duration varied over every whole
\* number of milliseconds and the other two as main.py:19-21 set them
InitBlockCounts ==
    /\ threshold \in Thresholds
    /\ \E d \in 0..MaxDurationMs :
          \/ /\ silence_sec = d
             /\ pre_buffer_sec = PRE_SPEECH_BUFFER_SEC
             /\ post_buffer_sec = POST_SPEECH_BUFFER_SEC
          \/ /\ silence_sec = SILENCE_DURATION_SEC
             /\ pre_buffer_sec = d
             /\ post_buffer_sec = POST_SPEECH_BUFFER_SEC
          \/ /\ silence_sec = SILENCE_DURATION_SEC
             /\ pre_buffer_sec = PRE_SPEECH_BUFFER_SEC
             /\ post_buffer_sec = d
    /\ InitLocals

\* ---------------------------------------------------------------- actions
\* main.py:42-56: the block counts, the locals and the opened stream
compute_block_counts ==
    /\ pc = "start"
    /\ silence_blocks_needed' = block_count(silence_sec)
    /\ pre_buffer_blocks' = block_count(pre_buffer_sec)
    /\ post_buffer_blocks' = block_count(post_buffer_sec)
    /\ stream_open' = TRUE
    /\ pc' = "get"
    /\ UNCHANGED << params, audio_queue, block, recorded_blocks,
                    silent_blocks_count, recording_started, temp_buffer,
                    final_recording, outcome, produced, consumed,
                    status_printed, main_vars >>

\* main.py:25-29: the stream's thread delivers one block
audio_callback ==
    /\ stream_open
    /\ Len(produced) < MaxBlocks
    /\ \E status \in BOOLEAN :
          status_printed' = (status_printed \/ status)
    /\ \E s \in SampleBlocks :
          LET indata == [idx |-> Len(produced) + 1, samples |-> s]
          IN  /\ audio_queue' = queue_put(audio_queue, indata)
              /\ produced' = Append(produced, indata)
    /\ UNCHANGED << config, stream_open, pc, block, recorded_blocks,
                    silent_blocks_count, recording_started, temp_buffer,
                    final_recording, outcome, consumed, main_vars >>

\* main.py:58: audio_queue.get() blocks while the queue is empty
queue_get ==
    /\ pc = "get"
    /\ audio_queue # <<>>
    /\ block' = Head(audio_queue)
    /\ audio_queue' = Tail(audio_queue)
    /\ consumed' = Append(consumed, Head(audio_queue))
    /\ pc' = "process"
    /\ UNCHANGED << config, stream_open, recorded_blocks, silent_blocks_count,
                    recording_started, temp_buffer, final_recording, outcome,
                    produced,
                    status_printed, main_vars >>

\* main.py:59-73: one block while recording has not started
process_listening ==
    /\ pc = "process"
    /\ ~recording_started
    /\ temp_buffer' = push_temp_buffer(temp_buffer, block)
    /\ IF ~Silent(block)
       THEN /\ recording_started' = TRUE
            /\ recorded_blocks' = seed_recording(recorded_blocks, temp_buffer', block)
            /\ silent_blocks_count' = 0
       ELSE UNCHANGED << recording_started, recorded_blocks, silent_blocks_count >>
    /\ pc' = "get"
    /\ UNCHANGED << config, audio_queue, stream_open, block, final_recording,
                    outcome, produced, consumed,
                    status_printed, main_vars >>

\* main.py:59-61, 74-82: one block while recording
process_recording ==
    /\ pc = "process"
    /\ recording_started
    /\ recorded_blocks' = append_recorded(recorded_blocks, block)
    /\ IF Silent(block)
       THEN /\ silent_blocks_count' = count_after_silent(silent_blocks_count)
            /\ pc' = IF stop_reached(silent_blocks_count')
                     THEN "exit_stream" ELSE "get"
       ELSE /\ silent_blocks_count' = count_after_active(silent_blocks_count)
            /\ pc' = "get"
    /\ UNCHANGED << config, audio_queue, stream_open, block, recording_started,
                    temp_buffer, final_recording, outcome, produced, consumed,
                    status_printed, main_vars >>

\* main.py:54-56, 80 with the queue emptied when the stream stops
exit_stream_drain ==
    /\ pc = "exit_stream"
    /\ stream_open' = FALSE
    /\ audio_queue' = <<>>
    /\ pc' = "return"
    /\ UNCHANGED << config, block, recorded_blocks,
                    silent_blocks_count, recording_started, temp_buffer,
                    final_recording, outcome, produced, consumed,
                    status_printed, main_vars >>

\* main.py:54-56, 80: break leaves the with block, which stops the stream
exit_stream ==
    /\ pc = "exit_stream"
    /\ stream_open' = FALSE
    /\ pc' = "return"
    /\ UNCHANGED << config, audio_queue, block, recorded_blocks,
                    silent_blocks_count, recording_started, temp_buffer,
                    final_recording, outcome, produced, consumed,
                    status_printed, main_vars >>

\* main.py:84-99: the no-speech return, or trim, concatenate and return
\* (np.concatenate of an empty list raises, which line 97 turns into exit 1)
finish_recording ==
    /\ pc = "return"
    /\ IF recorded_blocks = <<>>
       THEN /\ final_recording' = <<>>
            /\ outcome' = "no_speech"
       ELSE LET kept == SlicePrefix(recorded_blocks,
                            num_blocks_to_keep(recorded_blocks, silent_blocks_count))
            IN  /\ final_recording' = kept
                /\ outcome' = IF kept = <<>> THEN "exit_1" ELSE "recorded"
    /\ pc' = "done"
    /\ IF outcome' = "exit_1"
       THEN main_pc' = "exit" /\ exit_code' = 1
       ELSE UNCHANGED << main_pc, exit_code >>
    /\ UNCHANGED << config, audio_queue, stream_open, block, recorded_blocks,
                    silent_blocks_count, recording_started, temp_buffer,
                    produced, consumed, status_printed, posts, response,
                    send_result >>

\* main.py:53-58, 97: a user interrupt while the loop runs.  KeyboardInterrupt
\* is not an Exception, so line 97 does not catch it: the with block stops
\* the stream and the interrupt leaves record_until_silence and main.
keyboard_interrupt ==
    /\ pc \in {"get", "process"}
    /\ stream_open' = FALSE
    /\ outcome' = "interrupted"
    /\ pc' = "done"
    /\ main_pc' = "exit"
    /\ exit_code' = 130
    /\ UNCHANGED << config, audio_queue, block, recorded_blocks,
                    silent_blocks_count, recording_started, temp_buffer,
                    final_recording, produced, consumed, status_printed,
                    posts, response, send_result >>

\* main.py:54, 97-99: opening the stream raises (no device, bad settings);
\* line 97 catches it and sys.exit(1) ends the process
stream_error ==
    /\ pc = "start"
    /\ outcome' = "exit_1"
    /\ pc' = "done"
    /\ main_pc' = "exit"
    /\ exit_code' = 1
    /\ UNCHANGED << config, audio_queue, stream_open, block, recorded_blocks,
                    silent_blocks_count, recording_started, temp_buffer,
                    final_recording, produced, consumed, status_printed,
                    posts, response, send_result >>

\* main.py:188-193: record_until_silence has returned; main uploads the
\* recording unless it is None, and then falls off its end
main_after_record ==
    /\ main_pc = "record"
    /\ pc = "done"
    /\ IF outcome = "recorded"
       THEN main_pc' = "encode" /\ UNCHANGED exit_code
       ELSE main_pc' = "exit" /\ exit_code' = 0
    /\ UNCHANGED << capture_vars, posts, response, send_result >>

\* main.py:105-112: sf.write into the memory buffer, which may raise
encode_wav ==
    /\ main_pc = "encode"
    /\ \E written \in BOOLEAN :
          IF written
          THEN main_pc' = "post" /\ UNCHANGED << send_result, exit_code >>
          ELSE main_pc' = "exit" /\ send_result' = "False" /\ exit_code' = 0
    /\ UNCHANGED << capture_vars, posts, response >>

\* main.py:115-120: the one requests.post call and what comes back
http_post ==
    /\ main_pc = "post"
    /\ posts' = posts + 1
    /\ response' \in Responses
    /\ main_pc' = "response"
    /\ UNCHANGED << capture_vars, send_result, exit_code >>

\* main.py:121-148 and the return to main: the result of
\* send_audio_to_server, or the error that escapes it and ends the process
handle_response ==
    /\ main_pc = "response"
    /\ send_result' = send_outcome(response)
    /\ main_pc' = after_response(send_result')
    /\ exit_code' = IF main_pc' = "exit"
                    THEN (IF send_result' = "raised" THEN 1 ELSE 0)
                    ELSE exit_code
    /\ UNCHANGED << capture_vars, posts, response >>

Next ==
    \/ compute_block_counts
    \/ audio_callback
    \/ queue_get
    \/ process_listening
    \/ process_recording
    \/ exit_stream
    \/ finish_recording
    \/ keyboard_interrupt
    \/ stream_error

\* The whole program: the capture, then main and send_audio_to_server
NextMain ==
    \/ Next
    \/ main_after_record
    \/ encode_wav
    \/ http_post
    \/ handle_response

Spec == Init /\ [][Next]_vars

\* The block counts alone, over every whole number of milliseconds
SpecBlockCounts == InitBlockCounts /\ [][compute_block_counts]_vars

\* The capture with a consumer thread that keeps running: each step of
\* record_until_silence that can be taken is eventually taken.  The
\* callback, the user interrupt and a stream failure are left to the
\* environment.
SpecLive ==
    /\ InitLive
    /\ [][Next]_vars
    /\ WF_vars(compute_block_counts)
    /\ WF_vars(queue_get)
    /\ WF_vars(process_listening)
    /\ WF_vars(process_recording)
    /\ WF_vars(exit_stream)
    /\ WF_vars(finish_recording)

\* The whole program, for the short durations InitMain draws
SpecMain == InitMain /\ [][NextMain]_vars

\* ------------------------------------------------------------- type check
Blocks == [idx : 1..MaxBlocks, samples : SampleBlocks]

TypeOK ==
    /\ threshold \in Thresholds
    /\ silence_sec \in Nat
    /\ pre_buffer_sec \in Nat
    /\ post_buffer_sec \in Nat
    /\ silence_blocks_needed \in 0..MaxSilenceNeeded
    /\ pre_buffer_blocks \in 0..MaxPreBuffer
    /\ post_buffer_blocks \in 0..MaxPostBuffer
    /\ audio_queue \in Seq(Blocks)
    /\ stream_open \in BOOLEAN
    /\ pc \in {"start", "get", "process", "exit_stream", "return", "done"}
    /\ block \in Blocks \cup {NoBlock}
    /\ recorded_blocks \in Seq(Blocks)
    /\ silent_blocks_count \in Nat
    /\ recording_started \in BOOLEAN
    /\ temp_buffer \in Seq(Blocks)
    /\ final_recording \in Seq(Blocks)
    /\ outcome \in {"running", "recorded", "no_speech", "exit_1", "interrupted"}
    /\ produced \in Seq(Blocks)
    /\ consumed \in Seq(Blocks)
    /\ status_printed \in BOOLEAN
    /\ main_pc \in {"record", "encode", "post", "response", "exit"}
    /\ posts \in 0..1
    /\ response \in Responses \cup {NoResponse}
    /\ send_result \in {"none", "True", "False", "raised"}
    /\ exit_code \in {-1, 0, 1, 130}

\* ------------------------------------------------- vocabulary of the claims
\* The loop has left by break (main.py:80) or has returned after it
Finished ==
    \/ pc \in {"exit_stream", "return"}
    \/ (pc = "done" /\ outcome \in {"recorded", "no_speech"})

\* The loop is still running in the Recording state
Recording == recording_started /\ pc \in {"get", "process"}

\* The engine is in the Listening state (running, recording not started)
Listening == ~recording_started /\ outcome = "running"

\* The blocks already applied to the state machine while the loop runs
Applied == IF pc = "process" THEN SubSeq(consumed, 1, Len(consumed) - 1) ELSE consumed

\* Position in s of its first Active block, 0 when it has none
FirstActive(s) ==
    IF \E i \in 1..Len(s) : ~Silent(s[i])
    THEN CHOOSE i \in 1..Len(s) : ~Silent(s[i]) /\ \A j \in 1..(i - 1) : Silent(s[j])
    ELSE 0

\* The last n elements of s
LastN(s, n) == SubSeq(s, Len(s) - n + 1, Len(s))

\* This step applies the fetched block to the state machine
Processes == pc = "process" /\ pc' \in {"get", "exit_stream"}

\* ------------------------------------------------------------------ claims
\* C1: on the Listening->Recording transition the recording buffer becomes
\* the pre-speech buffer as it was before the triggering block arrived,
\* oldest first, followed by the triggering block once.
C1_SeedIsPreBufferThenBlock ==
    [][ (Processes /\ ~recording_started /\ recording_started')
            => recorded_blocks' = temp_buffer \o <<block>> ]_vars

\* C2 as stated: the engine has finished exactly when the silence-run
\* counter equals silence_blocks_needed, and while it is still consuming
\* blocks in Recording the counter is below silence_blocks_needed.
C2_StopsWhenCounterReachesNeeded ==
    /\ Finished => silent_blocks_count = silence_blocks_needed
    /\ Recording => silent_blocks_count < silence_blocks_needed

\* C2 amended: the same with max(1, silence_blocks_needed) as the stopping
\* count (the test runs only after a Silent block has been counted), and
\* nothing is consumed once the engine has finished.
C2_StopsWhenCounterReachesMax1Needed ==
    /\ [](Finished => silent_blocks_count = Max(1, silence_blocks_needed))
    /\ [](Recording => silent_blocks_count < Max(1, silence_blocks_needed))
    /\ [][Finished => consumed' = consumed]_vars

C2_Witness ==
    /\ pc = "return"
    /\ silence_blocks_needed = 2
    /\ silent_blocks_count = 2
    /\ Len(audio_queue) > 0

\* C3: the final recording has min(p, pre_buffer_blocks) + m
\* - max(0, silence_blocks_needed - post_buffer_blocks) blocks, p the Silent
\* blocks consumed before the triggering block and m the blocks consumed
\* from the triggering block through the terminating one.
C3_FinalLengthFormula ==
    (pc = "done" /\ outcome = "recorded") =>
        LET p == FirstActive(consumed) - 1
            m == Len(consumed) - p
        IN  Len(final_recording) =
                Min(p, pre_buffer_blocks) + m
                    - Max(0, silence_blocks_needed - post_buffer_blocks)

\* C4: the pre-speech buffer never holds more than pre_buffer_blocks blocks,
\* and while Listening it is exactly the last min(N, pre_buffer_blocks) of
\* the N Silent blocks processed so far, in arrival order.
C4_PreSpeechBufferBounded ==
    /\ Len(temp_buffer) <= pre_buffer_blocks
    /\ Listening =>
          temp_buffer = LastN(Applied, Min(Len(Applied), pre_buffer_blocks))

C4_Witness ==
    /\ Listening
    /\ pc = "get"
    /\ pre_buffer_blocks = 2
    /\ Len(consumed) > pre_buffer_blocks + 1
    /\ temp_buffer = LastN(consumed, 2)

\* C5: a block is treated as Silent exactly when its RMS is strictly below
\* the threshold: while Listening a processed block starts the recording
\* iff its RMS >= threshold, and while Recording it increments the silence
\* run iff its RMS < threshold.
C5_SilentIffRmsBelowThreshold ==
    [][ Processes =>
          LET rms == calculate_rms(block.samples)
          IN  IF recording_started
              THEN (silent_blocks_count' = silent_blocks_count + 1) <=> (rms < threshold)
              ELSE recording_started' <=> (rms >= threshold) ]_vars

C5_Witness ==
    /\ recording_started
    /\ Len(consumed) = 2
    /\ pc = "get"
    /\ calculate_rms(consumed[1].samples) < threshold
    /\ calculate_rms(consumed[2].samples) = threshold

\* C6: in Recording an Active block sets the silence-run counter to 0
\* whatever it was, so when the engine finishes the last
\* silence_blocks_needed consumed blocks are Silent blocks that follow the
\* triggering block.
C6_ActiveBlockResetsCounter ==
    /\ [][ (Processes /\ recording_started /\ calculate_rms(block.samples) >= threshold)
              => silent_blocks_count' = 0 ]_vars
    /\ [](Finished =>
            /\ Len(consumed) - FirstActive(consumed) >= silence_blocks_needed
            /\ \A i \in (Len(consumed) - silence_blocks_needed + 1)..Len(consumed) :
                  calculate_rms(consumed[i].samples) < threshold)

\* Two Silent blocks after the trigger, parted by an Active block, have
\* not stopped a recording that needs two
C6_Witness ==
    /\ Recording
    /\ pc = "get"
    /\ silence_blocks_needed = 2
    /\ silent_blocks_count = 1
    /\ \E i \in 2..(Len(consumed) - 2) :
          /\ FirstActive(consumed) < i
          /\ Silent(consumed[i])
          /\ ~Silent(consumed[i + 1])
          /\ Silent(consumed[i + 2])

\* C7: when the engine has finished, the trim count
\* max(0, silent_blocks_count - post_buffer_blocks) lies in
\* 0..len(recorded_blocks), the number of blocks kept lies in the same range,
\* and the final recording holds exactly that many blocks.
C7_TrimCountWithinBuffer ==
    Finished =>
        /\ trim_count(silent_blocks_count) \in 0..Len(recorded_blocks)
        /\ num_blocks_to_keep(recorded_blocks, silent_blocks_count)
              \in 0..Len(recorded_blocks)
        /\ pc = "done" =>
              Len(final_recording) = Len(recorded_blocks)
                  - Max(0, silent_blocks_count - post_buffer_blocks)

C7_Witness ==
    /\ pc = "done"
    /\ outcome = "recorded"
    /\ silence_blocks_needed = 0
    /\ post_buffer_blocks > silent_blocks_count
    /\ Len(final_recording) = Len(recorded_blocks)

\* C8: when record_until_silence has ended without recording having
\* started and without a stream failure (no Active block arrived and the
\* run was cancelled), it ended with the no-speech outcome.
C8_CancelWhileListeningIsNoSpeech ==
    (pc = "done" /\ ~recording_started /\ outcome # "exit_1")
        => outcome = "no_speech"

\* C9: the hand-off queue is FIFO without loss or duplication: the blocks
\* fetched so far followed by the blocks still queued are the blocks
\* produced, in production order, and the block being processed is the
\* last one fetched.
C9_ConsumedInProductionOrder ==
    /\ consumed \o audio_queue = produced
    /\ \A i \in 1..Len(produced) : produced[i].idx = i
    /\ pc = "process" => block = consumed[Len(consumed)]

C9_Witness ==
    /\ pc = "process"
    /\ Len(consumed) >= 2
    /\ Len(audio_queue) >= 2
    /\ recording_started

C11_BlockCountsAreRounded ==
    pc # "start" =>
        /\ pre_buffer_blocks = block_count_round(pre_buffer_sec)
        /\ silence_blocks_needed = block_count_round(silence_sec)
        /\ post_buffer_blocks = block_count_round(post_buffer_sec)

\* C12: capture and upload are sequential and there is at most one POST:
\* a POST has been issued only once record_until_silence has returned a
\* final recording and the stream is closed, no step of the upload changes
\* the capture, and no run without a final recording issues a POST.
C12_OnePostAfterCapture ==
    /\ [](posts <= 1)
    /\ [](main_pc \in {"encode", "post", "response"} \/ posts = 1 =>
            /\ pc = "done"
            /\ outcome = "recorded"
            /\ final_recording # <<>>
            /\ ~stream_open)
    /\ [](outcome # "recorded" => posts = 0)
    /\ [][main_pc # "record" => capture_vars' = capture_vars]_vars

C12_Witness ==
    /\ main_pc = "exit"
    /\ posts = 1
    /\ response.kind = "Timeout"
    /\ send_result = "False"
    /\ exit_code = 0

\* C13: send_audio_to_server returns True exactly when the HTTP status is
\* 2xx, whatever the body, returns False for an encoding failure, a
\* connection failure, a timeout or another status, and no error escapes it.
C13_SuccessIff2xxNoErrorEscapes ==
    main_pc = "exit" /\ outcome = "recorded" =>
        /\ send_result \in {"True", "False"}
        /\ send_result = "True" <=>
              (response.kind = "http" /\ response.status \in 200..299)

\* C14: a capture fault (the stream fails to open, or the callback is
\* handed a status such as an overflow) is fatal: no final recording, no
\* upload, exit code 1; every other run that the user does not interrupt
\* exits with code 0.
C14_CaptureFaultIsFatal ==
    LET fault == status_printed \/ outcome = "exit_1"
    IN  /\ fault => (outcome # "recorded" /\ final_recording = <<>> /\ posts = 0)
        /\ (exit_code # -1 /\ outcome # "interrupted") =>
              (exit_code = 1 <=> fault)

\* The blocks applied after the triggering block, in a run that no
\* interrupt has ended
AfterTrigger ==
    SubSeq(Applied, FirstActive(Applied) + 1, Len(Applied))

\* Length of the run of Silent blocks at the end of s
TrailingSilent(s) ==
    CHOOSE n \in 0..Len(s) :
        /\ \A i \in (Len(s) - n + 1)..Len(s) : Silent(s[i])
        /\ (n < Len(s) => ~Silent(s[Len(s) - n]))

\* C15: once Recording, a processed block is appended once at the end of
\* the recording buffer and nothing else changes that buffer, the pre-speech
\* buffer is never modified again, and the final recording is produced
\* once, by the return, as a prefix of the recording buffer.
C15_RecordingOnlyAppends ==
    /\ [][ (Processes /\ recording_started)
              => recorded_blocks' = Append(recorded_blocks, block) ]_vars
    /\ [][ (recording_started /\ ~Processes)
              => recorded_blocks' = recorded_blocks ]_vars
    /\ [][ recording_started => temp_buffer' = temp_buffer ]_vars
    /\ [][ final_recording' # final_recording =>
              /\ pc = "return" /\ pc' = "done"
              /\ final_recording = <<>>
              /\ final_recording' =
                    SubSeq(recorded_blocks, 1, Len(final_recording')) ]_vars
    /\ []((recording_started /\ outcome # "interrupted") =>
              LastN(recorded_blocks, Len(AfterTrigger)) = AfterTrigger)

C15_Witness ==
    /\ pc = "done"
    /\ outcome = "recorded"
    /\ Len(AfterTrigger) >= 3
    /\ temp_buffer # <<>>
    /\ Len(final_recording) < Len(recorded_blocks)

\* C16: in Recording the silence-run counter is the length of the run of
\* Silent blocks at the end of the blocks applied after the triggering
\* block, it is at most len(recorded_blocks) - 1, and while the loop runs
\* it is below silence_blocks_needed when that is at least 1.
C16_CounterIsTrailingSilentRun ==
    (recording_started /\ outcome # "interrupted") =>
        /\ silent_blocks_count = TrailingSilent(AfterTrigger)
        /\ silent_blocks_count <= Len(recorded_blocks) - 1
        /\ (Recording /\ silence_blocks_needed >= 1)
              => silent_blocks_count < silence_blocks_needed

C16_Witness ==
    /\ Recording
    /\ pc = "process"
    /\ silence_blocks_needed = 2
    /\ silent_blocks_count = 1
    /\ Len(AfterTrigger) = 1
    /\ Silent(block)

\* C17: the trim removes only Silent blocks of the final silence run: the
\* final recording is a prefix of the recording buffer, every Active block
\* consumed from the triggering block on is in it, and after the last
\* Active block it keeps min(post_buffer_blocks, final run length) blocks.
C17_TrimKeepsActiveAndPostBuffer ==
    (pc = "done" /\ outcome = "recorded") =>
        LET run == TrailingSilent(consumed)
            last_active == consumed[Len(consumed) - run]
        IN  /\ final_recording = SubSeq(recorded_blocks, 1, Len(final_recording))
            /\ \A i \in FirstActive(consumed)..Len(consumed) :
                  ~Silent(consumed[i]) =>
                      \E j \in 1..Len(final_recording) : final_recording[j] = consumed[i]
            /\ \E j \in 1..Len(final_recording) :
                  /\ final_recording[j] = last_active
                  /\ Len(final_recording) - j = Min(post_buffer_blocks, run)
                  /\ \A k \in (j + 1)..Len(final_recording) : Silent(final_recording[k])

C17_Witness ==
    /\ pc = "done"
    /\ outcome = "recorded"
    /\ post_buffer_blocks = 1
    /\ TrailingSilent(consumed) = 2
    /\ Silent(final_recording[Len(final_recording)])
    /\ Len(final_recording) = Len(recorded_blocks) - 1

\* C18: once the loop has stopped nothing is fetched and the recording
\* buffer and the counter no longer change, the final recording holds only
\* blocks fetched up to the terminating one, and blocks enqueued later stay
\* in audio_queue, which only grows.
C18_LateBlocksStayQueued ==
    /\ [][ Finished =>
              /\ consumed' = consumed
              /\ recorded_blocks' = recorded_blocks
              /\ silent_blocks_count' = silent_blocks_count
              /\ Len(audio_queue') >= Len(audio_queue)
              /\ SubSeq(audio_queue', 1, Len(audio_queue)) = audio_queue ]_vars
    /\ [](Finished =>
              audio_queue = SubSeq(produced, Len(consumed) + 1, Len(produced)))
    /\ [](\A j \in 1..Len(final_recording) :
              final_recording[j].idx <= Len(consumed))

C18_Witness ==
    /\ pc = "done"
    /\ outcome = "recorded"
    /\ Len(audio_queue) = 2
    /\ Len(produced) = Len(consumed) + 2

\* The callback has delivered an Active block and, somewhere after it,
\* max(1, silence_blocks_needed) consecutive Silent blocks
StopPatternProduced ==
    LET c == Max(1, silence_blocks_needed)
    IN  /\ pc # "start"
        /\ \E i \in 1..Len(produced) :
              /\ ~Silent(produced[i])
              /\ \E j \in i..(Len(produced) - c) :
                    \A k \in (j + 1)..(j + c) : Silent(produced[k])

\* C19: once the stream holds an Active block followed by
\* max(1, silence_blocks_needed) consecutive Silent blocks, the engine
\* eventually returns a non-empty final recording (unless the user
\* interrupts it); and whenever the loop has been left by break the
\* recording buffer is non-empty, so the no-speech return is never taken.
C19_StopPatternLeadsToRecording ==
    /\ StopPatternProduced ~>
          ((pc = "done" /\ outcome = "recorded" /\ final_recording # <<>>)
              \/ outcome = "interrupted")
    /\ [](pc \in {"exit_stream", "return"} => recorded_blocks # <<>>)
    /\ [](outcome # "no_speech")

C19_Witness ==
    /\ StopPatternProduced
    /\ pc = "done"
    /\ outcome = "recorded"
    /\ silence_blocks_needed = 2
    /\ Len(consumed) = MaxBlocks
    /\ ~Silent(consumed[2])
    /\ Silent(consumed[1])

====
